---- MODULE Spec2Model ----
(***************************************************************************)
(* A model of the zero2prod subscription service (rust-version).           *)
(*                                                                         *)
(*   Spec          the HTTP server built by startup::run, serving the four *)
(*                 routes to concurrent requests                           *)
(*   SpecHandler   the handler subscribe(form, pool) and the gateway       *)
(*                 insert_subscriber, invoked with resolved arguments      *)
(*   SpecMain      the process entry point main, with get_configuration    *)
(*   SpecTelemetry telemetry::get_subscriber / init_subscriber             *)
(*                                                                         *)
(* Text is a sequence of one-character strings, so that URL decoding,      *)
(* lower-casing and formatting are computed rather than assumed.           *)
(***************************************************************************)
EXTENDS Integers, Sequences, FiniteSets, TLC

VARIABLES
    \* ---- HTTP server, handlers and store
    app,          \* the App the server factory builds: routes and app_data
    pc,           \* request -> position of the request in the pipeline
    req,          \* request -> the request as sent (method, path, body)
    form,         \* request -> the FormData the Form extractor produced
    status,       \* request -> HTTP status of the response (0: none yet)
    resp_body,    \* request -> response body
    attempts,     \* request -> number of INSERT statements executed for it
    request_id,   \* request -> request_id of the tracing span (0: no span)
    store,        \* the rows of table subscriptions
    uuid_next,    \* source of Uuid::new_v4()
    now,          \* the wall clock read by Utc::now()
    db_result,    \* request -> the result execute returned to insert_subscriber
    gw_result,    \* request -> the result insert_subscriber returned to subscribe
    row_id,       \* request -> the id bound to its INSERT statement (0: none)
    \* ---- process start (main, get_configuration)
    rust_log,         \* environment variable RUST_LOG
    app_environment,  \* environment variable APP_ENVIRONMENT
    main_pc,          \* position of main
    env_filter,       \* the EnvFilter main built
    environment,      \* the Environment get_configuration parsed
    config_file,      \* the overlay file get_configuration asked for
    panic_msg,        \* the message of the panic that ended main
    \* ---- telemetry
    logger,           \* the global `log` logger (LogTracer) is installed
    global_default,   \* the global default tracing subscriber
    built,            \* the subscribers get_subscriber has built
    init_calls,       \* the history of init_subscriber calls
    \* ---- test harness (spawn_app)
    target,           \* request -> the TestApp whose root_address it was sent to
    test_apps,        \* spawn_app invocation -> its position and its TestApp
    databases         \* database name -> the database on the Postgres instance

vars_http == <<app, pc, req, form, status, resp_body, attempts, request_id,
               store, uuid_next, now, db_result, gw_result, row_id>>
vars_main == <<rust_log, app_environment, main_pc, env_filter, environment,
               config_file, panic_msg>>
vars_tel == <<logger, global_default, built, init_calls>>
vars_harness == <<target, test_apps, databases>>
vars == <<vars_http, vars_main, vars_tel, vars_harness>>

\* ------------------------------------------------------------------ bounds
\* Concurrent requests the server model follows.
MaxRequests == 2
\* Largest reading of the wall clock.
MaxTime == 1
\* init_subscriber calls the telemetry model follows.
MaxInitCalls == 3

Requests == 1..MaxRequests

\* -------------------------------------------------------------------- text
RECURSIVE Flatten(_)
Flatten(ss) ==
    IF ss = <<>> THEN <<>> ELSE Head(ss) \o Flatten(Tail(ss))

\* Words used by the program and by the requests of the test-suite.
W_email == <<"e","m","a","i","l">>
W_name == <<"n","a","m","e">>
W_local == <<"l","o","c","a","l">>
W_production == <<"p","r","o","d","u","c","t","i","o","n">>
W_World == <<"W","o","r","l","d">>
W_Hello == <<"H","e","l","l","o"," ">>
W_yaml == <<".","y","a","m","l">>
W_leguin_enc == <<"l","e","%","2","0","g","u","i","n">>
W_leguin == <<"l","e"," ","g","u","i","n">>
W_ursula == <<"u","r","s","u","l","a","_","l","e","_","g","u","i","n">>
W_gmail == <<"g","m","a","i","l",".","c","o","m">>
W_mail_enc == W_ursula \o <<"%","4","0">> \o W_gmail
W_mail == W_ursula \o <<"@">> \o W_gmail
W_Ada == <<"A","d","a">>
W_info == <<"i","n","f","o">>
W_infos == <<"i","n","f","o","s">>
W_debug == <<"d","e","b","u","g">>
W_staging == <<"s","t","a","g","i","n","g">>
\* The character U+0060, which a TLA+ string cannot hold.
Backquote == "U+0060"
\* " is not a supported env.\nUse either [local] or [production]", the names quoted
\* in U+0060.
W_not_supported ==
    <<" ","i","s"," ","n","o","t"," ","a"," ","s","u","p","p","o","r","t","e","d",
      " ","e","n","v",".","\n","U","s","e"," ","e","i","t","h","e","r"," ",Backquote>>
    \o W_local \o <<Backquote," ","o","r"," ",Backquote>> \o W_production
    \o <<Backquote>>

Uppers == <<"A","B","C","D","E","F","G","H","I","J","K","L","M",
            "N","O","P","Q","R","S","T","U","V","W","X","Y","Z">>
Lowers == <<"a","b","c","d","e","f","g","h","i","j","k","l","m",
            "n","o","p","q","r","s","t","u","v","w","x","y","z">>
LowerChar(c) ==
    IF \E i \in 1..26 : Uppers[i] = c
    THEN Lowers[CHOOSE i \in 1..26 : Uppers[i] = c] ELSE c
UpperChar(c) ==
    IF \E i \in 1..26 : Lowers[i] = c
    THEN Uppers[CHOOSE i \in 1..26 : Lowers[i] = c] ELSE c
\* str::to_lowercase
to_lowercase(s) == [i \in 1..Len(s) |-> LowerChar(s[i])]
\* w with the letters at the positions of `up` in upper case
Cased(w, up) == [i \in 1..Len(w) |-> IF i \in up THEN UpperChar(w[i]) ELSE w[i]]
\* s starts with p
StartsWith(s, p) == Len(s) >= Len(p) /\ SubSeq(s, 1, Len(p)) = p
\* s contains p
Contains(s, p) == \E i \in 1..(Len(s) - Len(p) + 1) : SubSeq(s, i, i + Len(p) - 1) = p

\* Option<T> is a set with at most one element.
NoneOpt == {}
Some(x) == {x}
Unwrap(o) == CHOOSE x \in o : TRUE
unwrap_or(o, d) == IF o = {} THEN d ELSE Unwrap(o)

\* ------------------------------------------------- form-urlencoded bodies
\* The pieces of s between the occurrences of c (acc: the piece being read).
RECURSIVE SplitOn(_, _, _)
SplitOn(s, c, acc) ==
    IF s = <<>> THEN <<acc>>
    ELSE IF Head(s) = c THEN <<acc>> \o SplitOn(Tail(s), c, <<>>)
    ELSE SplitOn(Tail(s), c, Append(acc, Head(s)))

\* Position of the first c in s from position i on, 0 when there is none.
RECURSIVE Find(_, _, _)
Find(s, c, i) ==
    IF i > Len(s) THEN 0 ELSE IF s[i] = c THEN i ELSE Find(s, c, i + 1)

\* The characters the percent-escapes of the modelled bodies stand for.
PercentTable ==
    [e \in {<<"2","0">>, <<"4","0">>, <<"2","6">>, <<"3","D">>} |->
        CASE e = <<"2","0">> -> " "
          [] e = <<"4","0">> -> "@"
          [] e = <<"2","6">> -> "&"
          [] e = <<"3","D">> -> "="]

RECURSIVE replace_plus(_)
replace_plus(s) ==
    IF s = <<>> THEN <<>>
    ELSE <<IF Head(s) = "+" THEN " " ELSE Head(s)>> \o replace_plus(Tail(s))

\* %XY becomes the character it encodes; anything else is kept as it is.
RECURSIVE percent_decode(_)
percent_decode(s) ==
    IF s = <<>> THEN <<>>
    ELSE IF Head(s) = "%" /\ Len(s) >= 3 /\ <<s[2], s[3]>> \in DOMAIN PercentTable
         THEN <<PercentTable[<<s[2], s[3]>>]>> \o percent_decode(SubSeq(s, 4, Len(s)))
         ELSE <<Head(s)>> \o percent_decode(Tail(s))

url_decode(s) == percent_decode(replace_plus(s))

\* One name=value piece of a body, decoded; a piece without "=" has an empty value.
parse_pair(piece) ==
    LET i == Find(piece, "=", 1)
    IN  IF i = 0 THEN <<url_decode(piece), <<>>>>
        ELSE <<url_decode(SubSeq(piece, 1, i - 1)),
               url_decode(SubSeq(piece, i + 1, Len(piece)))>>

RECURSIVE parse_pieces(_)
parse_pieces(pieces) ==
    IF pieces = <<>> THEN <<>>
    ELSE IF Head(pieces) = <<>> THEN parse_pieces(Tail(pieces))
    ELSE <<parse_pair(Head(pieces))>> \o parse_pieces(Tail(pieces))

\* The (name, value) pairs of a form-urlencoded body, in order.
parse_urlencoded(body) == parse_pieces(SplitOn(body, "&", <<>>))

\* #[derive(Deserialize)] struct FormData { email: String, name: String }:
\* each field may be given once, unknown fields are skipped, both are required.
RECURSIVE visit_map(_, _)
visit_map(pairs, acc) ==
    IF acc.err # "" THEN acc
    ELSE IF pairs = <<>> THEN
        IF acc.email = NoneOpt THEN [acc EXCEPT !.err = "missing field email"]
        ELSE IF acc.name = NoneOpt THEN [acc EXCEPT !.err = "missing field name"]
        ELSE acc
    ELSE LET k == Head(pairs)[1]
             v == Head(pairs)[2]
         IN  IF k = W_email THEN
                 IF acc.email # NoneOpt
                 THEN [acc EXCEPT !.err = "duplicate field email"]
                 ELSE visit_map(Tail(pairs), [acc EXCEPT !.email = Some(v)])
             ELSE IF k = W_name THEN
                 IF acc.name # NoneOpt
                 THEN [acc EXCEPT !.err = "duplicate field name"]
                 ELSE visit_map(Tail(pairs), [acc EXCEPT !.name = Some(v)])
             ELSE visit_map(Tail(pairs), acc)

FormData(body) ==
    visit_map(parse_urlencoded(body), [email |-> NoneOpt, name |-> NoneOpt, err |-> ""])

\* web::Form<FormData>::from_request: Ok(form) or an extraction error.
FormExtractMissingAsEmpty(q) ==
    LET d == FormData(q.body)
    IN  [ok |-> TRUE,
         form |-> [email |-> unwrap_or(d.email, <<>>), name |-> unwrap_or(d.name, <<>>)]]

FormExtract(q) ==
    LET d == FormData(q.body)
    IN  IF d.err # "" THEN [ok |-> FALSE, form |-> [email |-> <<>>, name |-> <<>>]]
        ELSE [ok |-> TRUE, form |-> [email |-> Unwrap(d.email), name |-> Unwrap(d.name)]]

\* ------------------------------------------------------------ the requests
Amp == <<"&">>
Eq == <<"=">>
\* name=le%20guin&email=ursula_le_guin%40gmail.com, the valid form
BodyValid == Flatten(<<W_name, Eq, W_leguin_enc, Amp, W_email, Eq, W_mail_enc>>)
\* name=le%20guin, missing the email
BodyNoEmail == Flatten(<<W_name, Eq, W_leguin_enc>>)
\* email=ursula_le_guin%40gmail.com, missing the name
BodyNoName == Flatten(<<W_email, Eq, W_mail_enc>>)
\* the empty body, missing both
BodyEmpty == <<>>
\* email=&name=, both fields present and empty
BodyBlank == Flatten(<<W_email, Eq, Amp, W_name, Eq>>)
\* name=Ada&email=Ada, a second valid form
BodyAda == Flatten(<<W_name, Eq, W_Ada, Amp, W_email, Eq, W_Ada>>)

Bodies == {BodyValid, BodyNoEmail, BodyNoName, BodyEmpty, BodyBlank, BodyAda}

Post(b) == [method |-> "POST", path |-> "/subscription", name |-> NoneOpt, body |-> b]
Get(p, n) == [method |-> "GET", path |-> p, name |-> n, body |-> <<>>]

\* The requests a client sends: the four routes of the server.
SentRequests ==
    {Post(b) : b \in Bodies}
    \cup {Get("/health_check", NoneOpt), Get("/greet", NoneOpt),
          Get("/greet/{name}", Some(W_Ada)), Get("/greet/{name}", Some(W_World)),
          Get("/greet/{name}", Some(W_leguin))}

NoRequest == [method |-> "", path |-> "", name |-> NoneOpt, body |-> <<>>]

\* ------------------------------------------------------------- the server
\* startup::run(listener): the App the server factory builds. Four routes are
\* registered; no application state is registered on it (no app_data call).
run ==
    [routes |-> {[path |-> "/health_check", method |-> "GET", handler |-> "health_check"],
                 [path |-> "/greet", method |-> "GET", handler |-> "greet"],
                 [path |-> "/greet/{name}", method |-> "GET", handler |-> "greet"],
                 [path |-> "/subscription", method |-> "POST", handler |-> "subscribe"]},
     app_data |-> {}]

\* The handler the App routes request q to.
Route(a, q) ==
    LET m == {rt \in a.routes : rt.path = q.path /\ rt.method = q.method}
    IN  IF m = {} THEN "default" ELSE (CHOOSE rt \in m : TRUE).handler

\* web::Data<PgPool>::from_request: the pool registered on the App, if any.
DataExtract(a) == "PgPool" \in a.app_data

\* The arguments of subscribe are extracted in the order of its signature, and the
\* handler runs only when every extraction succeeds: a form that does not
\* deserialize is answered 400, application data that is not registered 500.
Extract(a, q) ==
    LET f == FormExtract(q)
    IN  IF ~f.ok THEN [pc |-> "Rejected", status |-> 400, form |-> NoneOpt]
        ELSE IF ~DataExtract(a)
             THEN [pc |-> "Unconfigured", status |-> 500, form |-> NoneOpt]
             ELSE [pc |-> "Extracted", status |-> 0, form |-> Some(f.form)]

\* A client sends request q; the server has read it.
Send(r, q) ==
    /\ pc[r] = "Idle"
    /\ pc' = [pc EXCEPT ![r] = "Received"]
    /\ req' = [req EXCEPT ![r] = q]
    /\ UNCHANGED <<app, form, status, resp_body, attempts, request_id, store,
                   uuid_next, now, db_result, gw_result, row_id, vars_main, vars_tel, vars_harness>>

\* HttpResponse::Ok(): status 200 and no body.
HttpResponseOkWithText == [status |-> 200, body |-> <<"O","K">>]

HttpResponseOk == [status |-> 200, body |-> <<>>]

\* GET /health_check: the handler takes no argument and answers HttpResponse::Ok().
health_check(r) ==
    /\ pc[r] = "Received"
    /\ Route(app, req[r]) = "health_check"
    /\ pc' = [pc EXCEPT ![r] = "Responded"]
    /\ status' = [status EXCEPT ![r] = HttpResponseOk.status]
    /\ resp_body' = [resp_body EXCEPT ![r] = HttpResponseOk.body]
    /\ UNCHANGED <<app, req, form, attempts, request_id, store, uuid_next, now,
                   db_result, gw_result, row_id, vars_main, vars_tel, vars_harness>>

\* The body greet answers for the route parameters of a request.
greet_body_ignores_name(q) == W_Hello \o W_World

greet_body(q) == W_Hello \o unwrap_or(q.name, W_World)

\* GET /greet and GET /greet/{name}.
greet(r) ==
    /\ pc[r] = "Received"
    /\ Route(app, req[r]) = "greet"
    /\ pc' = [pc EXCEPT ![r] = "Responded"]
    /\ status' = [status EXCEPT ![r] = 200]
    /\ resp_body' = [resp_body EXCEPT ![r] = greet_body(req[r])]
    /\ UNCHANGED <<app, req, form, attempts, request_id, store, uuid_next, now,
                   db_result, gw_result, row_id, vars_main, vars_tel, vars_harness>>

\* POST /subscription: the extraction of the arguments of subscribe.
ExtractSubscribe(r) ==
    /\ pc[r] = "Received"
    /\ Route(app, req[r]) = "subscribe"
    /\ LET x == Extract(app, req[r])
       IN  /\ pc' = [pc EXCEPT ![r] = x.pc]
           /\ status' = [status EXCEPT ![r] = x.status]
           /\ form' = [form EXCEPT ![r] = x.form]
    /\ UNCHANGED <<app, req, resp_body, attempts, request_id, store, uuid_next, now,
                   db_result, gw_result, row_id, vars_main, vars_tel, vars_harness>>

\* ------------------------------------------------ the handler and the gateway
\* Uuid::new_v4(): the n-th identifier generated.
new_v4(n) == n

\* subscribe(form, pool) starts: the span gets a fresh request_id, and the
\* handler calls insert_subscriber.
subscribe(r) ==
    /\ pc[r] = "Extracted"
    /\ request_id' = [request_id EXCEPT ![r] = new_v4(uuid_next)]
    /\ uuid_next' = uuid_next + 1
    /\ pc' = [pc EXCEPT ![r] = "Persisting"]
    /\ UNCHANGED <<app, req, form, status, resp_body, attempts, store, now,
                   db_result, gw_result, row_id, vars_main, vars_tel, vars_harness>>

\* The row insert_subscriber binds to its INSERT statement.
NewRow(f, id, t) == [id |-> id, email |-> f.email, name |-> f.name, subscribed_at |-> t]

\* The status subscribe answers for the result of insert_subscriber.
subscribe_status_always_ok(ok) == 200

subscribe_status(ok) == IF ok THEN 200 ELSE 500

\* The table after the INSERT of row was executed with result ok.
execute_inserts_on_error(rows, row, ok) == rows \cup {row}

execute(rows, row, ok) == IF ok THEN rows \cup {row} ELSE rows

\* The target of a request that was sent to no TestApp.
NoApp == "none"

\* The pool subscribe hands to insert_subscriber for request r: the pool of the
\* TestApp the request was sent to, or the pool of the service (the table store).
db_conn(r) == IF target[r] = NoApp THEN NoneOpt ELSE test_apps[target[r]].db_conn_pool

\* The errors execute can return (sqlx::Error): no connection could be acquired
\* in time, the server refused the statement, the connection was lost.
SqlxErrors == {"PoolTimedOut", "Database", "Io"}

\* The results of executing a statement on the pool.
ExecuteResults == {"Ok"} \cup SqlxErrors

\* .map_err(|e| { tracing::error!(..); e }): the error is logged and passed on.
map_err_generic(res) == IF res = "Ok" THEN "Ok" ELSE "RowNotFound"

map_err(res) == res

\* insert_subscriber executes its one INSERT statement on the pool; the statement
\* succeeds or fails (sqlx::Error), the error is logged and returned as it is, and
\* subscribe maps the result to the response.
insert_subscriber(r) ==
    /\ pc[r] = "Persisting"
    /\ \E res \in ExecuteResults :
        LET row == NewRow(Unwrap(form[r]), new_v4(uuid_next), now)
            ret == map_err(res)
            db == db_conn(r)
        IN  /\ IF db = NoneOpt
               THEN /\ store' = execute(store, row, res = "Ok")
                    /\ UNCHANGED databases
               ELSE /\ databases' = [databases EXCEPT ![Unwrap(db).db].subscriptions =
                                        execute(@, row, res = "Ok")]
                    /\ UNCHANGED store
            /\ db_result' = [db_result EXCEPT ![r] = Some(res)]
            /\ gw_result' = [gw_result EXCEPT ![r] = Some(ret)]
            /\ pc' = [pc EXCEPT ![r] = IF ret = "Ok" THEN "Succeeded" ELSE "Failed"]
            /\ status' = [status EXCEPT ![r] = subscribe_status(ret = "Ok")]
    /\ row_id' = [row_id EXCEPT ![r] = new_v4(uuid_next)]
    /\ uuid_next' = uuid_next + 1
    /\ attempts' = [attempts EXCEPT ![r] = @ + 1]
    /\ resp_body' = [resp_body EXCEPT ![r] = <<>>]
    /\ UNCHANGED <<app, req, form, request_id, now, vars_main, vars_tel, target,
                   test_apps>>

\* The handler is invoked for a request with body b: both of its arguments, the
\* form and the pool, were extracted.
Invoke(r, b) ==
    /\ pc[r] = "Idle"
    /\ FormExtract(Post(b)).ok
    /\ req' = [req EXCEPT ![r] = Post(b)]
    /\ form' = [form EXCEPT ![r] = Some(FormExtract(Post(b)).form)]
    /\ pc' = [pc EXCEPT ![r] = "Extracted"]
    /\ UNCHANGED <<app, status, resp_body, attempts, request_id, store, uuid_next,
                   now, db_result, gw_result, row_id, vars_main, vars_tel, vars_harness>>

\* Time passes.
Tick ==
    /\ now < MaxTime
    /\ now' = now + 1
    /\ UNCHANGED <<app, pc, req, form, status, resp_body, attempts, request_id,
                   store, uuid_next, db_result, gw_result, row_id, vars_main, vars_tel, vars_harness>>

\* ---------------------------------------------------------- the test harness
\* The spawn_app invocations that run side by side.
TestApps == {"a", "b"}

\* database.name of the configuration files.
ConfiguredDatabaseName == "database.name"
\* The maintenance database configure_database connects to.
MaintenanceDatabase == "postgres"
\* The ports the operating system has free for a listener bound to port 0.
FreePorts == {49152, 49153}

\* config.database.name as spawn_app sets it, from the configured name and a
\* fresh Uuid.
test_database_name_configured(configured, u) == configured

test_database_name(configured, u) == ToString(u)

\* connection_string(): the database a connection made with the settings opens.
connection_string(name) == [db |-> name]

\* CREATE DATABASE: a new database, without any table.
NewDatabase == [migrated |-> FALSE, subscriptions |-> {}]

NotSpawned ==
    [pc |-> "NotSpawned", db_name |-> "", db_conn_pool |-> NoneOpt, port |-> 0,
     root_address |-> NoneOpt]

\* spawn_app reads the configuration and names its database.
spawn_app(a) ==
    /\ test_apps[a].pc = "NotSpawned"
    /\ test_apps' = [test_apps EXCEPT
                        ![a].pc = "Named",
                        ![a].db_name = test_database_name(ConfiguredDatabaseName,
                                                          new_v4(uuid_next))]
    /\ uuid_next' = uuid_next + 1
    /\ UNCHANGED <<app, pc, req, form, status, resp_body, attempts, request_id,
                   store, now, db_result, gw_result, row_id, vars_main, vars_tel,
                   target, databases>>

\* configure_database executes CREATE DATABASE on the maintenance connection;
\* the statement fails when a database of that name exists, and expect panics.
CreateDatabase(a) ==
    /\ test_apps[a].pc = "Named"
    /\ MaintenanceDatabase \in DOMAIN databases
    /\ LET name == test_apps[a].db_name
       IN  IF name \in DOMAIN databases
           THEN /\ test_apps' = [test_apps EXCEPT ![a].pc = "Panicked"]
                /\ UNCHANGED databases
           ELSE /\ test_apps' = [test_apps EXCEPT ![a].pc = "Created"]
                /\ databases' = (name :> NewDatabase) @@ databases
    /\ UNCHANGED <<vars_http, vars_main, vars_tel, target>>

\* configure_database connects the pool to the database of the settings and
\* runs the migrations on it.
ConnectAndMigrate(a) ==
    /\ test_apps[a].pc = "Created"
    /\ LET conn == connection_string(test_apps[a].db_name)
       IN  /\ test_apps' = [test_apps EXCEPT ![a].pc = "Configured",
                                             ![a].db_conn_pool = Some(conn)]
           /\ databases' = [databases EXCEPT ![conn.db].migrated = TRUE]
    /\ UNCHANGED <<vars_http, vars_main, vars_tel, target>>

\* The ports listeners are bound to.
BoundPorts == {test_apps[a].port : a \in TestApps} \ {0}

\* spawn_app binds a listener to a port the operating system picks, builds the
\* server with run, spawns it and returns the TestApp.
Serve(a) ==
    /\ test_apps[a].pc = "Configured"
    /\ app = run
    /\ \E p \in FreePorts \ BoundPorts :
          test_apps' = [test_apps EXCEPT
                           ![a].pc = "Ready",
                           ![a].port = p,
                           ![a].root_address = Some(<<"http://127.0.0.1:", p>>)]
    /\ UNCHANGED <<vars_http, vars_main, vars_tel, target, databases>>

\* The requests the tests send to a TestApp.
TestBodies == {BodyValid, BodyNoEmail, BodyNoName, BodyEmpty}
TestRequests == {Post(b) : b \in TestBodies} \cup {Get("/health_check", NoneOpt)}

\* A test sends request q to the root_address of TestApp a.
SendTo(r, a, q) ==
    /\ pc[r] = "Idle"
    /\ test_apps[a].pc = "Ready"
    /\ pc' = [pc EXCEPT ![r] = "Received"]
    /\ req' = [req EXCEPT ![r] = q]
    /\ target' = [target EXCEPT ![r] = a]
    /\ UNCHANGED <<app, form, status, resp_body, attempts, request_id, store,
                   uuid_next, now, db_result, gw_result, row_id, vars_main, vars_tel,
                   test_apps, databases>>

\* The handler is invoked for a request sent to TestApp a with the valid body of
\* the tests: its arguments are the form and the pool spawn_app handed to run.
InvokeOn(r, a) ==
    /\ pc[r] = "Idle"
    /\ test_apps[a].pc = "Ready"
    /\ FormExtract(Post(BodyValid)).ok
    /\ req' = [req EXCEPT ![r] = Post(BodyValid)]
    /\ form' = [form EXCEPT ![r] = Some(FormExtract(Post(BodyValid)).form)]
    /\ pc' = [pc EXCEPT ![r] = "Extracted"]
    /\ target' = [target EXCEPT ![r] = a]
    /\ UNCHANGED <<app, status, resp_body, attempts, request_id, store, uuid_next,
                   now, db_result, gw_result, row_id, vars_main, vars_tel,
                   test_apps, databases>>

InitHarnessIdle ==
    /\ target = [r \in Requests |-> NoApp]
    /\ test_apps = [a \in TestApps |-> NotSpawned]
    /\ databases = (MaintenanceDatabase :> NewDatabase)

\* ------------------------------------------------------------ specifications
InitHttp ==
    /\ app = run
    /\ pc = [r \in Requests |-> "Idle"]
    /\ req = [r \in Requests |-> NoRequest]
    /\ form = [r \in Requests |-> NoneOpt]
    /\ status = [r \in Requests |-> 0]
    /\ resp_body = [r \in Requests |-> <<>>]
    /\ attempts = [r \in Requests |-> 0]
    /\ request_id = [r \in Requests |-> 0]
    /\ store = {}
    /\ uuid_next = 1
    /\ now = 0
    /\ db_result = [r \in Requests |-> NoneOpt]
    /\ gw_result = [r \in Requests |-> NoneOpt]
    /\ row_id = [r \in Requests |-> 0]

InitMainIdle ==
    /\ rust_log = NoneOpt
    /\ app_environment = NoneOpt
    /\ main_pc = "NotStarted"
    /\ env_filter = NoneOpt
    /\ environment = NoneOpt
    /\ config_file = NoneOpt
    /\ panic_msg = NoneOpt

InitTelIdle ==
    /\ logger = FALSE
    /\ global_default = NoneOpt
    /\ built = {}
    /\ init_calls = <<>>

Init == InitHttp /\ InitMainIdle /\ InitTelIdle /\ InitHarnessIdle

\* The server built by run, serving concurrent requests.
Next ==
    \/ \E r \in Requests, q \in SentRequests : Send(r, q)
    \/ \E r \in Requests : health_check(r)
    \/ \E r \in Requests : greet(r)
    \/ \E r \in Requests : ExtractSubscribe(r)

Spec == Init /\ [][Next]_vars

\* The handler invoked with its arguments, by concurrent requests.
NextHandler ==
    \/ \E r \in Requests, b \in Bodies : Invoke(r, b)
    \/ \E r \in Requests : subscribe(r)
    \/ \E r \in Requests : insert_subscriber(r)
    \/ Tick

SpecHandler == Init /\ [][NextHandler]_vars

\* The routes of the server together with the handler invoked with its
\* arguments, all working on the one table and interleaved in every order.
NextService ==
    \/ \E r \in Requests, q \in SentRequests : Send(r, q)
    \/ \E r \in Requests : health_check(r)
    \/ \E r \in Requests : greet(r)
    \/ \E r \in Requests : ExtractSubscribe(r)
    \/ \E r \in Requests, b \in Bodies : Invoke(r, b)
    \/ \E r \in Requests : subscribe(r)
    \/ \E r \in Requests : insert_subscriber(r)
    \/ Tick

SpecService == Init /\ [][NextService]_vars

\* Two spawn_app invocations and the requests of the tests to their servers.
NextHarness ==
    \/ \E a \in TestApps : spawn_app(a)
    \/ \E a \in TestApps : CreateDatabase(a)
    \/ \E a \in TestApps : ConnectAndMigrate(a)
    \/ \E a \in TestApps : Serve(a)
    \/ \E r \in Requests, a \in TestApps, q \in TestRequests : SendTo(r, a, q)
    \/ \E r \in Requests, a \in TestApps : InvokeOn(r, a)
    \/ \E r \in Requests : health_check(r)
    \/ \E r \in Requests : ExtractSubscribe(r)
    \/ \E r \in Requests : subscribe(r)
    \/ \E r \in Requests : insert_subscriber(r)

SpecHarness == Init /\ [][NextHarness]_vars

\* ---------------------------------------------------------- configuration
\* impl TryFrom<String> for Environment: the lower-cased text selects the
\* variant; anything else is an error whose message starts with that text.
try_from_case_sensitive(s) ==
    IF s = W_local THEN [ok |-> TRUE, env |-> "Local", err |-> <<>>]
    ELSE IF s = W_production THEN [ok |-> TRUE, env |-> "Production", err |-> <<>>]
    ELSE [ok |-> FALSE, env |-> "", err |-> s \o W_not_supported]

try_from(s) ==
    LET other == to_lowercase(s)
    IN  IF other = W_local THEN [ok |-> TRUE, env |-> "Local", err |-> <<>>]
        ELSE IF other = W_production
             THEN [ok |-> TRUE, env |-> "Production", err |-> <<>>]
             ELSE [ok |-> FALSE, env |-> "", err |-> other \o W_not_supported]

\* Environment::as_str
as_str(e) == IF e = "Local" THEN W_local ELSE W_production

\* get_configuration, the environment: std::env::var("APP_ENVIRONMENT") with
\* "local" in place of a variable that is not set, converted with try_from.
parse_app_environment(var) == try_from(unwrap_or(var, W_local))

\* The values of APP_ENVIRONMENT the model draws from: not set, empty, both
\* accepted names in several letter cases, and names that are not accepted.
AppEnvironmentValues ==
    {NoneOpt, Some(<<>>)}
    \cup {Some(Cased(W_local, up)) : up \in SUBSET (1..5)}
    \cup {Some(Cased(W_production, up)) : up \in {{}, {1}, 1..10, {2, 4, 6, 8, 10}}}
    \cup {Some(Cased(W_staging, up)) : up \in {{}, {1}, 1..7}}
    \cup {Some(<<"l","o","c","a">>), Some(W_local \o <<"s">>), Some(<<" ">> \o W_local)}

\* ------------------------------------------------------------------- main
\* The values of RUST_LOG the model draws from: not set, empty, two levels, and
\* a text that is no filter directive.
RustLogValues == {NoneOpt, Some(<<>>), Some(W_info), Some(W_debug), Some(<<"=">>)}

\* Whether the text parses as filter directives (of the texts in RustLogValues).
parses_as_directives(s) == s \in {<<>>, W_info, W_debug}

\* EnvFilter::try_from_default_env(): the filter RUST_LOG states, or an error
\* when the variable is not set or does not parse.
try_from_default_env(var) ==
    IF var # NoneOpt /\ parses_as_directives(Unwrap(var))
    THEN Some([from |-> "RUST_LOG", directives |-> Unwrap(var)])
    ELSE NoneOpt

\* EnvFilter::new(directives)
EnvFilter_new(d) == [from |-> "fallback", directives |-> d]

\* std::env::var("RUST_LOG").expect(..): whether main gets past its first statement.
rust_log_always_ok(var) == TRUE

rust_log_is_set(var) == var # NoneOpt

MsgRustLog == "RUST_LOG environment variable must be set (e.g., RUST_LOG=info)"
MsgParseEnv == "Failed to parse APP_ENVIRONMENT"
MsgReadConfig == "Failed to read configuration."
MsgBind == "Failed to bind to the address"
MsgConnect == "Failed to connect to Postgres"

Panic(msg, err) == Some([expect |-> msg, err |-> err])

\* main: RUST_LOG is required, main panics when it is not set.
RequireRustLog ==
    /\ main_pc = "Start"
    /\ IF rust_log_is_set(rust_log)
       THEN main_pc' = "LogChecked" /\ UNCHANGED panic_msg
       ELSE main_pc' = "Panicked" /\ panic_msg' = Panic(MsgRustLog, <<>>)
    /\ UNCHANGED <<vars_http, vars_harness, rust_log, app_environment, env_filter, environment,
                   config_file, vars_tel>>

\* main: LogTracer::init, the filter, the subscriber, set_global_default. At
\* process start neither the logger nor the subscriber is installed yet.
InitObservability ==
    /\ main_pc = "LogChecked"
    /\ ~logger /\ global_default = NoneOpt
    /\ LET f == unwrap_or(try_from_default_env(rust_log), EnvFilter_new(W_infos))
       IN  /\ env_filter' = Some(f)
           /\ global_default' = Some([name |-> "zero2prod", filter |-> f, sink |-> "stdout"])
    /\ logger' = TRUE
    /\ main_pc' = "SubscriberSet"
    /\ UNCHANGED <<vars_http, vars_harness, rust_log, app_environment, environment, config_file,
                   panic_msg, built, init_calls>>

\* main: get_configuration().expect(..). The environment is parsed (a value that
\* is not accepted panics inside get_configuration), then base.yaml and the
\* overlay <environment>.yaml are read, which succeeds or fails.
GetConfiguration ==
    /\ main_pc = "SubscriberSet"
    /\ LET e == parse_app_environment(app_environment)
       IN  IF ~e.ok
           THEN /\ main_pc' = "Panicked"
                /\ panic_msg' = Panic(MsgParseEnv, e.err)
                /\ UNCHANGED <<environment, config_file>>
           ELSE /\ environment' = Some(e.env)
                /\ config_file' = Some(as_str(e.env) \o W_yaml)
                /\ \E read \in BOOLEAN :
                    IF read
                    THEN main_pc' = "Configured" /\ UNCHANGED panic_msg
                    ELSE main_pc' = "Panicked" /\ panic_msg' = Panic(MsgReadConfig, <<>>)
    /\ UNCHANGED <<vars_http, vars_harness, rust_log, app_environment, env_filter, vars_tel>>

\* main: TcpListener::bind(..).expect(..)
Bind ==
    /\ main_pc = "Configured"
    /\ \E bound \in BOOLEAN :
        IF bound
        THEN main_pc' = "Bound" /\ UNCHANGED panic_msg
        ELSE main_pc' = "Panicked" /\ panic_msg' = Panic(MsgBind, <<>>)
    /\ UNCHANGED <<vars_http, vars_harness, rust_log, app_environment, env_filter, environment,
                   config_file, vars_tel>>

\* main: PgPool::connect(..).await.expect(..), then the server is run.
Connect ==
    /\ main_pc = "Bound"
    /\ \E connected \in BOOLEAN :
        IF connected
        THEN main_pc' = "Serving" /\ UNCHANGED panic_msg
        ELSE main_pc' = "Panicked" /\ panic_msg' = Panic(MsgConnect, <<>>)
    /\ UNCHANGED <<vars_http, vars_harness, rust_log, app_environment, env_filter, environment,
                   config_file, vars_tel>>

InitMain ==
    /\ InitHttp
    /\ InitTelIdle
    /\ InitHarnessIdle
    /\ rust_log \in RustLogValues
    /\ app_environment \in AppEnvironmentValues
    /\ main_pc = "Start"
    /\ env_filter = NoneOpt
    /\ environment = NoneOpt
    /\ config_file = NoneOpt
    /\ panic_msg = NoneOpt

NextMain ==
    \/ RequireRustLog
    \/ InitObservability
    \/ GetConfiguration
    \/ Bind
    \/ Connect

\* The process from its start to the running server.
SpecMain == InitMain /\ [][NextMain]_vars

\* -------------------------------------------------------------- telemetry
ServiceNames == {"zero2prod"}
Sinks == {"stdout", "sink"}
FallbackFilters == {W_info, W_debug}

\* get_subscriber(name, env_filter, sink): the filter of RUST_LOG, or the one
\* the caller names when RUST_LOG is not set or does not parse.
get_subscriber(name, fallback, sink) ==
    [name |-> name,
     filter |-> unwrap_or(try_from_default_env(rust_log), EnvFilter_new(fallback)),
     sink |-> sink]

GetSubscriber(name, fallback, sink) ==
    /\ get_subscriber(name, fallback, sink) \notin built
    /\ built' = built \cup {get_subscriber(name, fallback, sink)}
    /\ UNCHANGED <<vars_http, vars_harness, vars_main, logger, global_default, init_calls>>

\* init_subscriber(subscriber): LogTracer::init().expect(..) panics when a logger
\* is installed already; set_global_default(..).expect(..) panics when a global
\* default subscriber is.
init_subscriber_overwrites(lg, gd, s) ==
    [logger |-> TRUE, global_default |-> Some(s), outcome |-> "ok"]

init_subscriber(lg, gd, s) ==
    IF lg
    THEN [logger |-> lg, global_default |-> gd, outcome |-> "Failed to set logger"]
    ELSE IF gd # NoneOpt
         THEN [logger |-> TRUE, global_default |-> gd,
               outcome |-> "Failed to set subscriber"]
         ELSE [logger |-> TRUE, global_default |-> Some(s), outcome |-> "ok"]

InitSubscriber(s) ==
    /\ Len(init_calls) < MaxInitCalls
    /\ LET res == init_subscriber(logger, global_default, s)
       IN  /\ logger' = res.logger
           /\ global_default' = res.global_default
           /\ init_calls' = Append(init_calls, [subscriber |-> s, outcome |-> res.outcome])
    /\ UNCHANGED <<vars_http, vars_harness, vars_main, built>>

InitTelemetry ==
    /\ InitHttp
    /\ InitTelIdle
    /\ InitHarnessIdle
    /\ rust_log \in RustLogValues
    /\ app_environment = NoneOpt
    /\ main_pc = "NotStarted"
    /\ env_filter = NoneOpt
    /\ environment = NoneOpt
    /\ config_file = NoneOpt
    /\ panic_msg = NoneOpt

NextTelemetry ==
    \/ \E n \in ServiceNames, f \in FallbackFilters, k \in Sinks : GetSubscriber(n, f, k)
    \/ \E s \in built : InitSubscriber(s)

\* A process (a test binary) that builds subscribers and installs them.
SpecTelemetry == InitTelemetry /\ [][NextTelemetry]_vars

\* ================================================================== claims
IsSubscription(q) == q.method = "POST" /\ q.path = "/subscription"
IsHealthCheck(q) == q.method = "GET" /\ q.path = "/health_check"
\* The request has its response.
Answered(r) == pc[r] \notin {"Idle", "Received", "Extracted", "Persisting"}
\* Bodies missing the email, missing the name, or empty.
FailingBodies == {BodyNoEmail, BodyNoName, BodyEmpty}
\* Bodies email=E&name=N with non-empty E and N.
ValidBodies == {BodyValid, BodyAda}
\* The decoded (email, name) of a valid body.
Decoded(b) ==
    IF b = BodyValid THEN [email |-> W_mail, name |-> W_leguin]
    ELSE [email |-> W_Ada, name |-> W_Ada]

\* ---- C1
C1_Rejected ==
    \A r \in Requests :
        (IsSubscription(req[r]) /\ req[r].body \in FailingBodies /\ pc[r] # "Received")
        => /\ pc[r] = "Rejected"
           /\ status[r] = 400
           /\ attempts[r] = 0
           /\ form[r] = NoneOpt

C1_RejectStep ==
    \A r \in Requests :
        (IsSubscription(req[r]) /\ req[r].body \in FailingBodies
         /\ pc[r] = "Received" /\ pc'[r] # "Received")
        => store' = store /\ attempts' = attempts /\ status'[r] = 400

C2_ValidFormStored ==
    \A r \in Requests :
        (IsSubscription(req[r]) /\ req[r].body \in ValidBodies /\ Answered(r))
        => /\ status[r] = 200
           /\ \E row \in store :
                /\ row.email = Decoded(req[r].body).email
                /\ row.name = Decoded(req[r].body).name

\* ---- C3
\* C3: a POST /subscription request is only ever Received, Extracted, Persisting,
\* Succeeded, Failed or Rejected, and its status matches its terminal state:
\* 400 exactly when Rejected, 200 exactly when Succeeded (the gateway returned
\* Ok), 500 exactly when Failed (an INSERT was attempted and returned an error).
C3_StateMachine ==
    \A r \in Requests :
        IsSubscription(req[r])
        => /\ pc[r] \in {"Received", "Extracted", "Persisting", "Succeeded", "Failed",
                         "Rejected"}
           /\ (status[r] = 400) <=> (pc[r] = "Rejected")
           /\ (status[r] = 200) <=> (pc[r] = "Succeeded")
           /\ (status[r] = 500) <=> (pc[r] = "Failed")
           /\ (status[r] = 500) => (attempts[r] = 1)
           /\ (pc[r] = "Rejected") => (attempts[r] = 0 /\ form[r] = NoneOpt)

\* ---- C4
\* C4: the App holds the pool as application state, and a POST /subscription
\* request whose form deserializes gets to the handler and on to the persistence
\* step; it is never answered for lack of the pool.
C4_PoolAttached ==
    \A r \in Requests :
        (IsSubscription(req[r]) /\ FormData(req[r].body).err = "" /\ pc[r] # "Received")
        => /\ DataExtract(app)
           /\ pc[r] \in {"Extracted", "Persisting", "Succeeded", "Failed"}

\* ---- C5
\* C5: two answered POST /subscription requests with the same valid body leave
\* two rows with that email and name and different ids, and no two rows of the
\* store share an id.
C5_NoDeduplication ==
    /\ \A r1, r2 \in Requests :
        (r1 # r2 /\ IsSubscription(req[r1]) /\ req[r1] = req[r2]
         /\ req[r1].body \in ValidBodies /\ Answered(r1) /\ Answered(r2))
        => \E x, y \in store :
            /\ x.id # y.id
            /\ x.email = Decoded(req[r1].body).email /\ y.email = x.email
            /\ x.name = Decoded(req[r1].body).name /\ y.name = x.name
    /\ \A x, y \in store : x.id = y.id => x = y

\* ---- C6
\* C6: every stored row has a non-empty email and a non-empty name.
C6_RowsNonEmpty ==
    \A row \in store : row.email # <<>> /\ row.name # <<>>

\* ---- C7
C7_Answer ==
    \A r \in Requests :
        (IsHealthCheck(req[r]) /\ pc[r] # "Received")
        => /\ status[r] = 200
           /\ Len(resp_body[r]) = 0
           /\ form[r] = NoneOpt
           /\ attempts[r] = 0

C7_Step ==
    \A r \in Requests :
        (IsHealthCheck(req[r]) /\ pc[r] = "Received" /\ pc'[r] # "Received")
        => /\ store' = store
           /\ form' = form
           /\ attempts' = attempts
           /\ \A o \in Requests \ {r} : pc'[o] = pc[o] /\ status'[o] = status[o]

\* C7: a GET /health_check request is answered 200 with a body of length 0,
\* nothing is extracted for it, and the step that answers it changes neither the
\* store nor any other request, whatever the other requests are doing.
C7_HealthCheck == [](C7_Answer) /\ [][C7_Step]_vars

\* A health check was answered while a subscription request was in flight.
C7_Witness ==
    \E r, o \in Requests :
        /\ r # o
        /\ IsHealthCheck(req[r]) /\ pc[r] = "Responded" /\ status[r] = 200
        /\ IsSubscription(req[o]) /\ pc[o] = "Received"

\* ---- C8
\* get_configuration has parsed APP_ENVIRONMENT (and selected an overlay or panicked).
EnvironmentParsed ==
    \/ environment # NoneOpt
    \/ panic_msg # NoneOpt /\ Unwrap(panic_msg).expect = MsgParseEnv
LocalSelected ==
    /\ environment = Some("Local")
    /\ config_file = Some(W_local \o W_yaml)
    /\ ~(panic_msg # NoneOpt /\ Unwrap(panic_msg).expect = MsgParseEnv)
ProductionSelected ==
    /\ environment = Some("Production")
    /\ config_file = Some(W_production \o W_yaml)
    /\ ~(panic_msg # NoneOpt /\ Unwrap(panic_msg).expect = MsgParseEnv)
\* The panic of a value that is not accepted: its message holds the value, in
\* lower case, and both accepted names.
EnvironmentRefused(v) ==
    /\ environment = NoneOpt /\ config_file = NoneOpt
    /\ main_pc = "Panicked"
    /\ panic_msg # NoneOpt
    /\ Unwrap(panic_msg).expect = MsgParseEnv
    /\ StartsWith(Unwrap(panic_msg).err, to_lowercase(v))
    /\ Contains(Unwrap(panic_msg).err, <<Backquote>> \o W_local \o <<Backquote>>)
    /\ Contains(Unwrap(panic_msg).err, <<Backquote>> \o W_production \o <<Backquote>>)
IsLocalName(v) == \E up \in SUBSET (1..5) : v = Cased(W_local, up)
IsProductionName(v) == \E up \in SUBSET (1..10) : v = Cased(W_production, up)

\* C8 as stated: with APP_ENVIRONMENT not set or empty the local overlay is
\* selected and nothing fails; local and production in any letter case select
\* their overlay; any other non-empty value is refused with a message naming
\* the value and both accepted names.
C8_OverlaySelection ==
    EnvironmentParsed =>
        /\ (app_environment \in {NoneOpt, Some(<<>>)}) => LocalSelected
        /\ (app_environment # NoneOpt /\ IsLocalName(Unwrap(app_environment)))
            => LocalSelected
        /\ (app_environment # NoneOpt /\ IsProductionName(Unwrap(app_environment)))
            => ProductionSelected
        /\ (app_environment # NoneOpt /\ Unwrap(app_environment) # <<>>
            /\ ~IsLocalName(Unwrap(app_environment))
            /\ ~IsProductionName(Unwrap(app_environment)))
            => EnvironmentRefused(Unwrap(app_environment))

\* C8 amended: only a variable that is not set selects the local overlay by
\* default; local and production in any letter case select their overlay; any
\* other value, the empty one included, is refused (get_configuration panics)
\* with a message naming the value in lower case and both accepted names.
C8_OverlaySelectionAmended ==
    EnvironmentParsed =>
        /\ (app_environment = NoneOpt) => LocalSelected
        /\ (app_environment # NoneOpt /\ IsLocalName(Unwrap(app_environment)))
            => LocalSelected
        /\ (app_environment # NoneOpt /\ IsProductionName(Unwrap(app_environment)))
            => ProductionSelected
        /\ (app_environment # NoneOpt
            /\ ~IsLocalName(Unwrap(app_environment))
            /\ ~IsProductionName(Unwrap(app_environment)))
            => EnvironmentRefused(Unwrap(app_environment))

\* get_configuration was given the empty value and refused it.
C8_Witness ==
    /\ app_environment = Some(<<>>)
    /\ EnvironmentParsed
    /\ main_pc = "Panicked"

\* ---- C9
\* C9: once init_subscriber was called, the global default subscriber is the one
\* given to the first call, and every later call panicked.
C9_InstalledOnce ==
    init_calls # <<>> =>
        /\ init_calls[1].outcome = "ok"
        /\ global_default = Some(init_calls[1].subscriber)
        /\ \A i \in 2..Len(init_calls) :
            init_calls[i].outcome \in {"Failed to set logger", "Failed to set subscriber"}

\* A second call was made with another subscriber than the first.
C9_Witness ==
    /\ Len(init_calls) >= 2
    /\ init_calls[2].subscriber # init_calls[1].subscriber
    /\ global_default = Some(init_calls[1].subscriber)

\* ---- C10
\* C10 as stated: with RUST_LOG not set, main does not fail on it: once past its
\* start it has not panicked for RUST_LOG, and the filter it builds is the
\* hardcoded fallback, after which it loads the configuration.
C10_FallbackWhenAbsent ==
    (rust_log = NoneOpt /\ main_pc # "Start") =>
        /\ ~(panic_msg # NoneOpt /\ Unwrap(panic_msg).expect = MsgRustLog)
        /\ (main_pc # "LogChecked" => env_filter = Some(EnvFilter_new(W_infos)))

\* C10 amended: with RUST_LOG not set, main panics at its first statement: no
\* filter is built, no subscriber installed, no configuration loaded. The
\* hardcoded fallback filter of main is built exactly when RUST_LOG is set to a
\* text that does not parse as filter directives.
C10_RustLogRequired ==
    /\ (rust_log = NoneOpt /\ main_pc # "Start") =>
        /\ main_pc = "Panicked"
        /\ panic_msg = Panic(MsgRustLog, <<>>)
        /\ env_filter = NoneOpt
        /\ global_default = NoneOpt
        /\ ~logger
        /\ environment = NoneOpt /\ config_file = NoneOpt
    /\ env_filter # NoneOpt =>
        ((env_filter = Some(EnvFilter_new(W_infos)))
            <=> (rust_log # NoneOpt /\ ~parses_as_directives(Unwrap(rust_log))))

\* main was started without RUST_LOG and has panicked.
C10_Witness ==
    /\ rust_log = NoneOpt
    /\ main_pc = "Panicked"
    /\ panic_msg = Panic(MsgRustLog, <<>>)

\* ---- C11
IsGreet(q) == q.method = "GET" /\ q.path \in {"/greet", "/greet/{name}"}

C11_Answer ==
    \A r \in Requests :
        (IsGreet(req[r]) /\ pc[r] # "Received")
        => /\ status[r] = 200
           /\ req[r].path = "/greet"
                => resp_body[r] = <<"H","e","l","l","o"," ","W","o","r","l","d">>
           /\ req[r].path = "/greet/{name}"
                => /\ resp_body[r] = <<"H","e","l","l","o"," ">> \o Unwrap(req[r].name)
                   /\ req[r].name = Some(W_Ada)
                        => resp_body[r] = <<"H","e","l","l","o"," ","A","d","a">>
           /\ attempts[r] = 0
           /\ form[r] = NoneOpt

C11_Step ==
    \A r \in Requests :
        (IsGreet(req[r]) /\ pc[r] = "Received" /\ pc'[r] # "Received")
        => store' = store /\ attempts' = attempts

\* C11: GET /greet is answered 200 with the body Hello World, GET /greet/{name}
\* 200 with Hello followed by the path parameter, for each name; no INSERT is
\* attempted for either and the step that answers leaves the store as it was.
C11_Greet == [](C11_Answer) /\ [][C11_Step]_vars

\* GET /greet/Ada and GET /greet were both answered.
C11_Witness ==
    \E r, o \in Requests :
        /\ req[r] = Get("/greet/{name}", Some(W_Ada)) /\ pc[r] = "Responded"
        /\ resp_body[r] = <<"H","e","l","l","o"," ","A","d","a">>
        /\ req[o] = Get("/greet", NoneOpt) /\ pc[o] = "Responded"

\* ---- C13
C13_OneAttempt ==
    \A r \in Requests :
        /\ attempts[r] <= 1
        /\ pc[r] \in {"Idle", "Extracted", "Persisting"}
            => attempts[r] = 0 /\ db_result[r] = NoneOpt /\ gw_result[r] = NoneOpt
        /\ pc[r] \in {"Succeeded", "Failed"}
            => attempts[r] = 1 /\ gw_result[r] = db_result[r] /\ db_result[r] # NoneOpt
        /\ pc[r] = "Failed"
            => Unwrap(gw_result[r]) \in SqlxErrors /\ status[r] = 500
        /\ pc[r] = "Succeeded"
            => gw_result[r] = Some("Ok") /\ status[r] = 200

C13_NoFurtherAttempt ==
    \A r \in Requests :
        pc[r] \in {"Succeeded", "Failed"}
        => /\ attempts'[r] = attempts[r]
           /\ pc'[r] = pc[r]
           /\ status'[r] = status[r]
           /\ gw_result'[r] = gw_result[r]

\* C13: insert_subscriber never retries: a request the handler has finished made
\* exactly one insert attempt; when the attempt failed, the error subscribe got is
\* the error execute returned, the answer is 500, and no further attempt is made.
C13_NoRetry == [](C13_OneAttempt) /\ [][C13_NoFurtherAttempt]_vars

\* One request failed on a lost connection while another one was stored.
C13_Witness ==
    \E r, o \in Requests :
        /\ pc[r] = "Failed" /\ db_result[r] = Some("Io") /\ gw_result[r] = Some("Io")
        /\ attempts[r] = 1 /\ status[r] = 500
        /\ pc[o] = "Succeeded"

\* ---- C14
\* What the pipeline holds for request r.
RequestState(r) ==
    <<pc[r], req[r], form[r], status[r], resp_body[r], attempts[r],
      request_id[r], db_result[r], gw_result[r], row_id[r]>>

RequestStateNext(r) ==
    <<pc'[r], req'[r], form'[r], status'[r], resp_body'[r], attempts'[r],
      request_id'[r], db_result'[r], gw_result'[r], row_id'[r]>>

\* This step answers request r with an error status.
EndsInError(r) == status[r] = 0 /\ status'[r] \in {400, 500}

C14_ErrorStep ==
    \A r \in Requests :
        (IsSubscription(req[r]) /\ EndsInError(r))
        => /\ store' = store
           /\ app' = app
           /\ \A o \in Requests \ {r} : RequestStateNext(o) = RequestState(o)

C14_NoTrace ==
    /\ \A r \in Requests :
           status[r] \in {400, 500} => \A row \in store : row.id # row_id[r]
    /\ \A o \in Requests :
           pc[o] = "Succeeded"
           => /\ status[o] = 200
              /\ \E row \in store :
                    /\ row.id = row_id[o]
                    /\ row.email = Unwrap(form[o]).email
                    /\ row.name = Unwrap(form[o]).name

\* C14: the step that answers a POST /subscription request 400 or 500 changes
\* neither the table nor the registered application data nor anything held for
\* another request; no row of the table belongs to a request answered 400 or 500,
\* and a request whose insert succeeded has status 200 and its row in the table,
\* whatever happened to the others.
C14_ErrorsContained == [](C14_NoTrace) /\ [][C14_ErrorStep]_vars

\* A request failed and another request was stored after it.
C14_Witness ==
    \E r, o \in Requests :
        /\ pc[r] = "Failed" /\ status[r] = 500
        /\ pc[o] = "Succeeded" /\ row_id[o] > row_id[r]
        /\ Cardinality(store) = 1

\* ---- C15
Stored200 == {r \in Requests : IsSubscription(req[r]) /\ status[r] = 200}

C15_Count == Cardinality(store) = Cardinality(Stored200)

C15_GrowStep ==
    /\ store \subseteq store'
    /\ \A r \in Requests :
           (status[r] = 0 /\ status'[r] # 0
            /\ (req[r].method = "GET" \/ status'[r] \in {400, 500}))
           => store' = store
    /\ store' # store
        => /\ Cardinality(store') = Cardinality(store) + 1
           /\ \E r \in Requests :
                 IsSubscription(req[r]) /\ status[r] = 0 /\ status'[r] = 200

\* C15: the number of rows of the table equals the number of POST /subscription
\* requests answered 200; every step keeps each existing row as it is, a step that
\* answers a GET request or answers 400 or 500 adds none, and a step that changes
\* the table adds exactly one row and answers one POST /subscription 200.
C15_StoreOnlyGrows == [](C15_Count) /\ [][C15_GrowStep]_vars

\* Every request was stored: the table holds one row for each of them.
C15_Witness ==
    /\ Cardinality(store) = MaxRequests
    /\ \A r \in Requests : pc[r] = "Succeeded"

\* ---- C12
\* The invocations that have named their database, and those that returned.
Named == {a \in TestApps : test_apps[a].pc # "NotSpawned"}
Ready == {a \in TestApps : test_apps[a].pc = "Ready"}

\* The rows a SELECT through the pool of TestApp a sees.
Visible(a) == databases[Unwrap(test_apps[a].db_conn_pool).db].subscriptions

\* Every row of every table.
AllRows == store \cup UNION {databases[d].subscriptions : d \in DOMAIN databases}

\* The rows inserted by the requests sent to the address of TestApp a.
InsertedThrough(a) ==
    {row \in AllRows :
        \E r \in Requests :
            target[r] = a /\ pc[r] = "Succeeded" /\ row.id = row_id[r]}

C12_Provisioned ==
    /\ \A a \in TestApps : test_apps[a].pc # "Panicked"
    /\ \A a, b \in Named : a # b => test_apps[a].db_name # test_apps[b].db_name
    /\ \A a \in TestApps :
           test_apps[a].db_conn_pool # NoneOpt
           => /\ Unwrap(test_apps[a].db_conn_pool).db = test_apps[a].db_name
              /\ test_apps[a].db_name \in DOMAIN databases \ {MaintenanceDatabase}
              /\ databases[test_apps[a].db_name].migrated
    /\ \A a, b \in Ready :
           a # b => /\ test_apps[a].port # test_apps[b].port
                    /\ test_apps[a].root_address # test_apps[b].root_address
                    /\ test_apps[a].db_conn_pool # test_apps[b].db_conn_pool

C12_OwnRows ==
    /\ \A a \in Ready :
           /\ Visible(a) = InsertedThrough(a)
           /\ \A r \in Requests :
                  (target[r] = a /\ pc[r] = "Succeeded")
                  => \E row \in Visible(a) :
                        /\ row.id = row_id[r]
                        /\ row.email = Unwrap(form[r]).email
                        /\ row.name = Unwrap(form[r]).name
    /\ databases[MaintenanceDatabase].subscriptions = {}
    /\ store = {}

====
